---- MODULE Spec2Model ----
(***************************************************************************)
(* A model of CMetaInterval (direct/src/interval/cMetaInterval.cxx): the   *)
(* list of interval definitions, its compilation into a time-sorted list   *)
(* of playback events, the playback operations that walk that list in      *)
(* either direction, and the queue of deferred events.                     *)
(*                                                                         *)
(* Indices are those of the source: _defs and _events are 0-based, so      *)
(* entry n of _defs is defs[n + 1] here.  A double time is represented by  *)
(* an integer count of 1/Sub ticks, a tick being 1/_precision: the         *)
(* conversion to integer time rounds it to the nearest tick.               *)
(***************************************************************************)
EXTENDS Integers, Sequences, FiniteSets, TLC

VARIABLES
  defs,                   \* _defs: the definition list
  current_nesting_level,  \* _current_nesting_level
  dirty,                  \* _dirty (CInterval): the events are out of date
  events,                 \* _events: the compiled events, sorted by time
  end_time,               \* _end_time: integer end time of the top level
  addr,                   \* the order of the PlaybackEvent addresses
  active,                 \* _active: the def indices of the active begin events
  next_event_index,       \* _next_event_index: the cursor into _events
  event_queue,            \* _event_queue: the deferred events
  curr_t,                 \* _curr_t (CInterval), in 1/Sub ticks
  warned,                 \* the last recompute warned "pushes don't match pops"
  last_op,                \* the operation that led to this state
  issued,                 \* the callbacks that operation issued, in order
  result,                 \* the value that operation returned
  fault                   \* an assertion failed in that operation

vars == <<defs, current_nesting_level, dirty, events, end_time, addr, active,
          next_event_index, event_queue, curr_t, warned, last_op, issued,
          result, fault>>

\* ------------------------------------------------------------------ bounds

\* The number of ticks a double time is divided into.
Sub == 4
\* The longest definition list of the playback specification.
MaxDefs == 2
\* The longest definition list of the editing specification.
MaxEditDefs == 4
\* The latest tick a playback operation is asked for.
MaxTime == 3
\* The longest deferred queue the host leaves unserviced when it asks for
\* another playback operation.
MaxPending == 1

\* ------------------------------------------------------- time conversion

\* double_to_int_time: (int)floor(t * _precision + 0.5), t in 1/Sub ticks.
double_to_int_time(t) == (2 * t + Sub) \div (2 * Sub)

\* int_to_double_time: (double)time / _precision, in 1/Sub ticks.
int_to_double_time(time) == time * Sub

max(a, b) == IF a >= b THEN a ELSE b

\* ------------------------------------------------------------ definitions

DT_c_interval == "c_interval"
DT_ext_index  == "ext_index"
DT_push_level == "push_level"
DT_pop_level  == "pop_level"

RS_previous_end   == "previous_end"
RS_previous_begin == "previous_begin"
RS_level_begin    == "level_begin"

RelativeStart == {RS_previous_end, RS_previous_begin, RS_level_begin}

PET_begin   == "begin"
PET_end     == "end"
PET_instant == "instant"

ET_initialize         == "initialize"
ET_instant            == "instant"
ET_step               == "step"
ET_finalize           == "finalize"
ET_reverse_initialize == "reverse_initialize"
ET_reverse_instant    == "reverse_instant"
ET_reverse_finalize   == "reverse_finalize"

\* IntervalDef: one struct for the four kinds.  For a DT_c_interval entry,
\* duration and open_ended are those of the CInterval it points to.
IntervalDef(type, duration, open_ended, rel_time, rel_to) ==
  [type |-> type, duration |-> duration, open_ended |-> open_ended,
   rel_time |-> rel_time, rel_to |-> rel_to, actual_begin_time |-> 0]

\* PlaybackEvent(time, n, type).  _begin_event of an end event is the begin
\* event of the same definition: an event is identified by (n, type).
PlaybackEvent(time, n, type) == [time |-> time, n |-> n, type |-> type]

Def(ds, n) == ds[n + 1]
Ev(evs, i) == evs[i + 1]

IsLeaf(d) == d.type \in {DT_c_interval, DT_ext_index}

\* --------------------------------------------------------------- compiler

get_begin_time_level_only(def, level_begin, previous_begin, previous_end) ==
  level_begin + double_to_int_time(def.rel_time)

get_begin_time(def, level_begin, previous_begin, previous_end) ==
  CASE def.rel_to = RS_previous_end ->
         previous_end + double_to_int_time(def.rel_time)
    [] def.rel_to = RS_previous_begin ->
         previous_begin + double_to_int_time(def.rel_time)
    [] def.rel_to = RS_level_begin ->
         level_begin + double_to_int_time(def.rel_time)
    [] OTHER -> previous_end

\* The events one leaf definition adds to _events.
leaf_events_always_pair(begin_time, end_time_, n) ==
  <<PlaybackEvent(begin_time, n, PET_begin),
    PlaybackEvent(end_time_, n, PET_end)>>

leaf_events(begin_time, end_time_, n) ==
  IF begin_time = end_time_
    THEN <<PlaybackEvent(begin_time, n, PET_instant)>>
    ELSE <<PlaybackEvent(begin_time, n, PET_begin),
           PlaybackEvent(end_time_, n, PET_end)>>

RECURSIVE recompute_level(_, _, _, _)
RECURSIVE recompute_level_loop(_, _, _, _, _, _, _)

\* The while loop of recompute_level, from entry n on.  The result holds the
\* returned n, level_end, and _defs and _events as the level leaves them.
recompute_level_loop(ds, evs, n, level_begin, previous_begin, previous_end, level_end) ==
  IF n < Len(ds) /\ Def(ds, n).type # DT_pop_level
    THEN
      LET def == Def(ds, n)
          begin_time ==
            get_begin_time(def, level_begin, previous_begin, previous_end)
          ds1 == [ds EXCEPT ![n + 1].actual_begin_time = begin_time]
      IN IF IsLeaf(def)
           THEN
             LET end_time_ == begin_time + double_to_int_time(def.duration)
             IN recompute_level_loop(
                  ds1, evs \o leaf_events(begin_time, end_time_, n), n + 1,
                  level_begin, begin_time, end_time_, max(level_end, end_time_))
           ELSE
             LET sub == recompute_level(ds1, evs, n + 1, begin_time)
             IN recompute_level_loop(
                  sub.defs, sub.events, sub.n + 1, level_begin, begin_time,
                  sub.level_end, max(level_end, sub.level_end))
    ELSE
      [n |-> n, level_end |-> level_end, events |-> evs,
       defs |-> IF n < Len(ds)
                  THEN [ds EXCEPT ![n + 1].actual_begin_time = level_end]
                  ELSE ds]

recompute_level_end_from_zero(ds, evs, n, level_begin) ==
  recompute_level_loop(ds, evs, n, level_begin, level_begin, level_begin, 0)

recompute_level(ds, evs, n, level_begin) ==
  recompute_level_loop(ds, evs, n, level_begin, level_begin, level_begin,
                       level_begin)

\* The events in the order recompute_level emitted them.
unsorted(evs) == evs

\* stable_sort(_events.begin(), _events.end(), IndirectLess<PlaybackEvent>()):
\* by _time, events of equal time keeping their order.
RECURSIVE stable_sort(_)
stable_sort(evs) ==
  IF evs = <<>> THEN <<>>
  ELSE LET x    == evs[Len(evs)]
           rest == stable_sort(SubSeq(evs, 1, Len(evs) - 1))
           LE(e) == e.time <= x.time
           GT(e) == e.time > x.time
       IN SelectSeq(rest, LE) \o <<x>> \o SelectSeq(rest, GT)

do_recompute_no_warning(ds) ==
  LET top == recompute_level(ds, <<>>, 0, 0)
  IN [defs |-> top.defs, events |-> stable_sort(top.events),
      end_time |-> top.level_end, warned |-> FALSE]

\* do_recompute: the new _defs (begin times filled in), _events, _end_time,
\* and whether the warning was given.
do_recompute(ds) ==
  LET top == recompute_level(ds, <<>>, 0, 0)
  IN [defs |-> top.defs, events |-> stable_sort(top.events),
      end_time |-> top.level_end, warned |-> top.n # Len(ds)]

\* ------------------------------------------------------ the object state

\* The CMetaInterval as the operations below take and return it.  new_active
\* is the local set of the operation in progress; issued and fault record
\* what the operation did.
This ==
  [defs |-> defs, dirty |-> dirty, events |-> events, end_time |-> end_time,
   addr |-> addr, warned |-> warned, active |-> active,
   next_event_index |-> next_event_index, event_queue |-> event_queue,
   curr_t |-> curr_t, current_nesting_level |-> current_nesting_level,
   new_active |-> {}, issued |-> <<>>, fault |-> FALSE]

\* nassertv/nassertr failing: the failure is reported and the function
\* returns.
Failed(this) == [this EXCEPT !.fault = TRUE]

\* The time of the begin event of definition n (event->_time of an element
\* of an ActiveEvents set).
BeginTime(evs, n) ==
  LET i == CHOOSE i \in 1..Len(evs) : evs[i].n = n /\ evs[i].type = PET_begin
  IN evs[i].time

\* An ActiveEvents set is ordered by the addresses of its events: the
\* elements of set S in the order a loop over it visits them.
InAddrOrder(order, S) ==
  LET In(n) == n \in S IN SelectSeq(order, In)

\* The def indices that have a begin event.
BeginDefs(evs) == {evs[i].n : i \in {j \in 1..Len(evs) : evs[j].type = PET_begin}}

\* The orders the addresses of the begin events may have.
AddrOrders(evs) ==
  LET S == BeginDefs(evs)
  IN {o \in [1..Cardinality(S) -> S] : \A i, j \in 1..Cardinality(S) :
        i # j => o[i] # o[j]}

\* recompute() of CInterval: do_recompute() if dirty.  do_recompute() clears
\* the events (and _active) and rebuilds them; order is the order of the
\* addresses of the new events.
recompute(this, order) ==
  IF this.dirty
    THEN LET r == do_recompute(this.defs)
         IN [this EXCEPT !.dirty = FALSE, !.active = {}, !.defs = r.defs,
                         !.events = r.events, !.end_time = r.end_time,
                         !.warned = r.warned, !.addr = order]
    ELSE this

\* get_duration() of CInterval: recompute(), then _duration, which
\* do_recompute() set to int_to_double_time(_end_time).
get_duration(this) == int_to_double_time(this.end_time)

\* ------------------------------------------------------ the deferred queue

EventQueueEntry(n, event_type, time) ==
  [n |-> n, event_type |-> event_type, time |-> time]

\* def._c_interval->set_t(int_to_double_time(time), event_type)
Invoke(this, n, event_type, time) ==
  [this EXCEPT !.issued = Append(@, [n |-> n, event_type |-> event_type,
                                     time |-> time, how |-> "invoked"])]

\* _event_queue.push_back(EventQueueEntry(n, event_type, time))
PushBack(this, n, event_type, time) ==
  [this EXCEPT !.event_queue = Append(@, EventQueueEntry(n, event_type, time)),
               !.issued = Append(@, [n |-> n, event_type |-> event_type,
                                     time |-> time, how |-> "queued"])]

IsInstantType(event_type) == event_type \in {ET_instant, ET_reverse_instant}

enqueue_event_never_defers(this, n, event_type, is_initial, time) ==
  IF ~(n >= 0 /\ n < Len(this.defs)) THEN Failed(this)
  ELSE LET def == Def(this.defs, n)
       IN CASE def.type = DT_c_interval ->
                 IF is_initial /\ IsInstantType(event_type) /\ ~def.open_ended
                   THEN this
                   ELSE Invoke(this, n, event_type, time)
            [] def.type = DT_ext_index ->
                 IF is_initial /\ IsInstantType(event_type) /\ ~def.open_ended
                   THEN this
                   ELSE PushBack(this, n, event_type, time)
            [] OTHER -> Failed(this)

enqueue_event_no_suppress(this, n, event_type, is_initial, time) ==
  IF ~(n >= 0 /\ n < Len(this.defs)) THEN Failed(this)
  ELSE LET def == Def(this.defs, n)
       IN CASE def.type = DT_c_interval ->
                 IF this.event_queue = <<>>
                   THEN Invoke(this, n, event_type, time)
                   ELSE PushBack(this, n, event_type, time)
            [] def.type = DT_ext_index ->
                 PushBack(this, n, event_type, time)
            [] OTHER -> Failed(this)

enqueue_event_defers_all(this, n, event_type, is_initial, time) ==
  IF ~(n >= 0 /\ n < Len(this.defs)) THEN Failed(this)
  ELSE LET def == Def(this.defs, n)
       IN IF ~IsLeaf(def) THEN Failed(this)
          ELSE IF is_initial /\ IsInstantType(event_type) /\ ~def.open_ended
                 THEN this
                 ELSE PushBack(this, n, event_type, time)

enqueue_event(this, n, event_type, is_initial, time) ==
  IF ~(n >= 0 /\ n < Len(this.defs)) THEN Failed(this)
  ELSE LET def == Def(this.defs, n)
       IN CASE def.type = DT_c_interval ->
                 IF is_initial /\ IsInstantType(event_type) /\ ~def.open_ended
                   THEN this
                   ELSE IF this.event_queue = <<>>
                          THEN Invoke(this, n, event_type, time)
                          ELSE PushBack(this, n, event_type, time)
            [] def.type = DT_ext_index ->
                 IF is_initial /\ IsInstantType(event_type) /\ ~def.open_ended
                   THEN this
                   ELSE PushBack(this, n, event_type, time)
            [] OTHER -> Failed(this)

RECURSIVE service_event_queue_drains_all(_)
service_event_queue_drains_all(this) ==
  IF this.event_queue = <<>> THEN this
  ELSE LET entry == Head(this.event_queue)
       IN service_event_queue_drains_all(
            [Invoke(this, entry.n, entry.event_type, entry.time)
               EXCEPT !.event_queue = Tail(@)])

\* service_event_queue: the object afterwards; the value returned is
\* service_event_queue_result.
RECURSIVE service_event_queue(_)
service_event_queue(this) ==
  IF this.event_queue = <<>> THEN this
  ELSE LET entry == Head(this.event_queue)
       IN IF ~(entry.n >= 0 /\ entry.n < Len(this.defs)) THEN Failed(this)
          ELSE LET def == Def(this.defs, entry.n)
               IN CASE def.type = DT_c_interval ->
                         service_event_queue(
                           [Invoke(this, entry.n, entry.event_type, entry.time)
                              EXCEPT !.event_queue = Tail(@)])
                    [] def.type = DT_ext_index -> this
                    [] OTHER -> Failed(this)

service_event_queue_result(this) ==
  LET after == service_event_queue(this)
  IN after.event_queue # <<>> /\ ~after.fault

\* pop_event (cMetaInterval.I): the host removes the external event at the
\* head of the queue once it has played it.
pop_event(this) ==
  IF this.event_queue = <<>> THEN Failed(this)
  ELSE LET entry == Head(this.event_queue)
       IN IF Def(this.defs, entry.n).type # DT_ext_index THEN Failed(this)
          ELSE [this EXCEPT !.event_queue = Tail(@),
                            !.issued = Append(@, [n |-> entry.n,
                                                  event_type |-> entry.event_type,
                                                  time |-> entry.time,
                                                  how |-> "external"])]

\* ------------------------------------------------------ the playback engine

do_event_forward_no_collapse(this, event, is_initial) ==
  CASE event.type = PET_begin ->
         IF event.n \in this.active \/ event.n \in this.new_active
           THEN Failed(this)
           ELSE [this EXCEPT !.new_active = @ \cup {event.n}]
    [] event.type = PET_end ->
         LET done == enqueue_event(
                       [this EXCEPT !.active = @ \ {event.n},
                                    !.new_active = @ \ {event.n}],
                       event.n, ET_finalize, is_initial, 0)
         IN IF event.n \in this.new_active \/ event.n \in this.active
              THEN done ELSE Failed(done)
    [] event.type = PET_instant ->
         enqueue_event(this, event.n, ET_instant, is_initial, 0)

do_event_forward_skips_instant(this, event, is_initial) ==
  CASE event.type = PET_begin ->
         IF event.n \in this.active \/ event.n \in this.new_active
           THEN Failed(this)
           ELSE [this EXCEPT !.new_active = @ \cup {event.n}]
    [] event.type = PET_end ->
         IF event.n \in this.new_active
           THEN enqueue_event([this EXCEPT !.new_active = @ \ {event.n}],
                              event.n, ET_instant, is_initial, 0)
           ELSE LET done == enqueue_event(
                              [this EXCEPT !.active = @ \ {event.n}],
                              event.n, ET_finalize, is_initial, 0)
                IN IF event.n \in this.active THEN done ELSE Failed(done)
    [] event.type = PET_instant -> this

do_event_forward(this, event, is_initial) ==
  CASE event.type = PET_begin ->
         IF event.n \in this.active THEN Failed(this)
         ELSE IF event.n \in this.new_active THEN Failed(this)
         ELSE [this EXCEPT !.new_active = @ \cup {event.n}]
    [] event.type = PET_end ->
         IF event.n \in this.new_active
           THEN \* This interval was new this frame: an instant event.
                enqueue_event([this EXCEPT !.new_active = @ \ {event.n}],
                              event.n, ET_instant, is_initial, 0)
           ELSE LET done == enqueue_event(
                              [this EXCEPT !.active = @ \ {event.n}],
                              event.n, ET_finalize, is_initial, 0)
                IN IF event.n \in this.active THEN done ELSE Failed(done)
    [] event.type = PET_instant ->
         enqueue_event(this, event.n, ET_instant, is_initial, 0)

do_event_reverse(this, event, is_initial) ==
  CASE event.type = PET_begin ->
         IF event.n \in this.new_active
           THEN enqueue_event([this EXCEPT !.new_active = @ \ {event.n}],
                              event.n, ET_reverse_instant, is_initial, 0)
           ELSE LET done == enqueue_event(
                              [this EXCEPT !.active = @ \ {event.n}],
                              event.n, ET_reverse_finalize, is_initial, 0)
                IN IF event.n \in this.active THEN done ELSE Failed(done)
    [] event.type = PET_end ->
         IF event.n \in this.new_active THEN Failed(this)
         ELSE [this EXCEPT !.new_active = @ \cup {event.n}]
    [] event.type = PET_instant ->
         enqueue_event(this, event.n, ET_reverse_instant, is_initial, 0)

\* for (ai = set.begin(); ai != set.end(); ++ai)
\*   enqueue_event(event->_n, event_type, false, now - event->_time);
RECURSIVE enqueue_each(_, _, _, _)
enqueue_each(this, ns, event_type, now) ==
  IF ns = <<>> THEN this
  ELSE enqueue_each(
         enqueue_event(this, Head(ns), event_type, FALSE,
                       now - BeginTime(this.events, Head(ns))),
         Tail(ns), event_type, now)

RECURSIVE merge_each_zero_offset(_, _, _, _)
merge_each_zero_offset(this, ns, event_type, now) ==
  IF ns = <<>> THEN this
  ELSE LET n    == Head(ns)
           done == enqueue_event(this, n, event_type, FALSE, 0)
       IN IF n \in done.active THEN Failed(done)
          ELSE merge_each_zero_offset([done EXCEPT !.active = @ \cup {n}],
                                      Tail(ns), event_type, now)

\* The second loop of finish_events_forward / finish_events_reverse: each
\* event of new_active is enqueued and inserted into _active.
RECURSIVE merge_each(_, _, _, _)
merge_each(this, ns, event_type, now) ==
  IF ns = <<>> THEN this
  ELSE LET n    == Head(ns)
           done == enqueue_event(this, n, event_type, FALSE,
                                 now - BeginTime(this.events, n))
       IN IF n \in done.active THEN Failed(done)
          ELSE merge_each([done EXCEPT !.active = @ \cup {n}], Tail(ns),
                          event_type, now)

finish_events_forward_initialize_first(this, now) ==
  LET merged == merge_each(this, InAddrOrder(this.addr, this.new_active),
                           ET_initialize, now)
  IN enqueue_each(merged, InAddrOrder(this.addr, this.active), ET_step, now)

finish_events_forward(this, now) ==
  LET stepped == enqueue_each(this, InAddrOrder(this.addr, this.active),
                              ET_step, now)
  IN merge_each(stepped, InAddrOrder(this.addr, this.new_active),
                ET_initialize, now)

finish_events_reverse(this, now) ==
  LET stepped == enqueue_each(this, InAddrOrder(this.addr, this.active),
                              ET_step, now)
  IN merge_each(stepped, InAddrOrder(this.addr, this.new_active),
                ET_reverse_initialize, now)

\* while (_next_event_index < _events.size() &&
\*        _events[_next_event_index]->_time <= now) { ...forward... }
\* With bounded FALSE the time is not looked at (finalize).
RECURSIVE scan_forward(_, _, _, _)
scan_forward(this, bounded, now, is_initial) ==
  IF this.next_event_index < Len(this.events)
     /\ (bounded => Ev(this.events, this.next_event_index).time <= now)
    THEN LET event == Ev(this.events, this.next_event_index)
             done  == do_event_forward(this, event, is_initial)
         IN scan_forward([done EXCEPT !.next_event_index = @ + 1], bounded,
                         now, is_initial)
    ELSE this

RECURSIVE scan_reverse_inclusive(_, _, _, _)
scan_reverse_inclusive(this, bounded, now, is_initial) ==
  IF this.next_event_index > 0
     /\ (bounded => Ev(this.events, this.next_event_index - 1).time >= now)
    THEN LET back  == [this EXCEPT !.next_event_index = @ - 1]
             event == Ev(back.events, back.next_event_index)
         IN scan_reverse_inclusive(do_event_reverse(back, event, is_initial),
                                   bounded, now, is_initial)
    ELSE this

\* while (_next_event_index > 0 &&
\*        _events[_next_event_index - 1]->_time > now) { ...reverse... }
RECURSIVE scan_reverse(_, _, _, _)
scan_reverse(this, bounded, now, is_initial) ==
  IF this.next_event_index > 0
     /\ (bounded => Ev(this.events, this.next_event_index - 1).time > now)
    THEN LET back  == [this EXCEPT !.next_event_index = @ - 1]
             event == Ev(back.events, back.next_event_index)
         IN scan_reverse(do_event_reverse(back, event, is_initial), bounded,
                         now, is_initial)
    ELSE this

initialize_keeps_active(this, order, t) ==
  LET now     == double_to_int_time(t)
      start   == [recompute(this, order) EXCEPT !.next_event_index = 0]
      scanned == scan_forward(start, TRUE, now, TRUE)
  IN [finish_events_forward(scanned, now) EXCEPT !.curr_t = t]

initialize_flushes_queue(this, order, t) ==
  LET now     == double_to_int_time(t)
      start   == [recompute(this, order) EXCEPT !.next_event_index = 0,
                                                !.active = {},
                                                !.event_queue = <<>>]
      scanned == scan_forward(start, TRUE, now, TRUE)
  IN [finish_events_forward(scanned, now) EXCEPT !.curr_t = t]

initialize(this, order, t) ==
  LET now     == double_to_int_time(t)
      start   == [recompute(this, order) EXCEPT !.next_event_index = 0,
                                                !.active = {}]
      scanned == scan_forward(start, TRUE, now, TRUE)
  IN [finish_events_forward(scanned, now) EXCEPT !.curr_t = t]

instant(this, order) ==
  LET start == [recompute(this, order) EXCEPT !.active = {}]
      RECURSIVE each(_, _)
      each(o, i) ==
        IF i >= Len(o.events) THEN o
        ELSE each(IF Ev(o.events, i).type # PET_begin
                    THEN enqueue_event(o, Ev(o.events, i).n, ET_instant,
                                       TRUE, 0)
                    ELSE o,
                  i + 1)
      done == each(start, 0)
  IN [done EXCEPT !.next_event_index = Len(done.events),
                  !.curr_t = get_duration(done)]

step_forward_only(this, t) ==
  LET now == double_to_int_time(t)
  IN [finish_events_forward(scan_forward(this, TRUE, now, FALSE), now)
        EXCEPT !.curr_t = t]

step(this, t) ==
  LET now == double_to_int_time(t)
  IN IF this.next_event_index < Len(this.events)
        /\ Ev(this.events, this.next_event_index).time <= now
       THEN \* The normal case: time is increasing.
            [finish_events_forward(scan_forward(this, TRUE, now, FALSE), now)
               EXCEPT !.curr_t = t]
       ELSE \* A less usual case: time is decreasing.
            [finish_events_reverse(scan_reverse(this, TRUE, now, FALSE), now)
               EXCEPT !.curr_t = t]

finalize_no_scan(this, order) ==
  LET timed == [recompute(this, order) EXCEPT !.curr_t = get_duration(this)]
  IN finish_events_forward(timed, double_to_int_time(timed.curr_t))

\* finalize: get_duration() recomputes if dirty, after the loop.
finalize(this, order) ==
  LET scanned == scan_forward(this, FALSE, 0, FALSE)
      again   == recompute(scanned, order)
      timed   == [again EXCEPT !.curr_t = get_duration(again)]
  IN finish_events_forward(timed, double_to_int_time(timed.curr_t))

reverse_initialize(this, order, t) ==
  LET now     == double_to_int_time(t)
      fresh   == recompute(this, order)
      start   == [fresh EXCEPT !.next_event_index = Len(fresh.events),
                               !.active = {}]
      scanned == scan_reverse(start, TRUE, now, TRUE)
  IN [finish_events_reverse(scanned, now) EXCEPT !.curr_t = t]

reverse_instant(this, order) ==
  LET start == [recompute(this, order) EXCEPT !.active = {}]
      RECURSIVE each(_, _)
      each(o, i) ==
        IF i < 0 THEN o
        ELSE each(IF Ev(o.events, i).type # PET_begin
                    THEN enqueue_event(o, Ev(o.events, i).n,
                                       ET_reverse_instant, TRUE, 0)
                    ELSE o,
                  i - 1)
      done == each(start, Len(start.events) - 1)
  IN [done EXCEPT !.next_event_index = 0, !.curr_t = 0]

reverse_finalize(this) ==
  LET scanned == scan_reverse(this, FALSE, 0, FALSE)
  IN [finish_events_reverse(scanned, 0) EXCEPT !.curr_t = 0]

\* ------------------------------------------------------ the definition list

\* mark_dirty() of CInterval.
mark_dirty(this) == [this EXCEPT !.dirty = TRUE]

push_level(this, rel_time, rel_to) ==
  mark_dirty([this EXCEPT
    !.defs = Append(@, IntervalDef(DT_push_level, 0, FALSE, rel_time, rel_to)),
    !.current_nesting_level = @ + 1])

\* A CInterval pointer: NULL, or a CInterval given by its duration and whether
\* it is open-ended.
NULL == [null |-> TRUE, duration |-> 0, open_ended |-> FALSE]
CInterval(duration, open_ended) ==
  [null |-> FALSE, duration |-> duration, open_ended |-> open_ended]

add_c_interval(this, c_interval, rel_time, rel_to) ==
  IF c_interval = NULL THEN Failed(this)
  ELSE mark_dirty([this EXCEPT
         !.defs = Append(@, IntervalDef(DT_c_interval, c_interval.duration,
                                        c_interval.open_ended, rel_time,
                                        rel_to))])

add_ext_index(this, duration, open_ended, rel_time, rel_to) ==
  mark_dirty([this EXCEPT
    !.defs = Append(@, IntervalDef(DT_ext_index, duration, open_ended,
                                   rel_time, rel_to))])

pop_level_unguarded(this) ==
  mark_dirty([this EXCEPT
    !.defs = Append(@, IntervalDef(DT_pop_level, 0, FALSE, 0,
                                   RS_previous_end)),
    !.current_nesting_level = @ - 1])

pop_level(this) ==
  IF ~(this.current_nesting_level > 0) THEN Failed(this)
  ELSE mark_dirty([this EXCEPT
         !.defs = Append(@, IntervalDef(DT_pop_level, 0, FALSE, 0,
                                        RS_previous_end)),
         !.current_nesting_level = @ - 1])

\* The value an append returns: -1 if it was refused, else
\* (int)_defs.size() - 1.
ReturnedIndex(after) == IF after.fault THEN -1 ELSE Len(after.defs) - 1

\* clear_events: _events.clear(); _active.clear().
clear_events(this) == [this EXCEPT !.events = <<>>, !.active = {}]

clear_intervals_unguarded(this) ==
  [clear_events(this) EXCEPT !.defs = <<>>,
                             !.current_nesting_level = 0,
                             !.next_event_index = 0]

clear_intervals(this) ==
  IF this.event_queue # <<>> THEN Failed(this)
  ELSE [clear_events(this) EXCEPT !.defs = <<>>,
                                  !.current_nesting_level = 0,
                                  !.next_event_index = 0]

\* write: recompute(), then the output.
write(this, order) == recompute(this, order)

\* ------------------------------------------------------------- the inputs

\* Durations, in 1/Sub ticks.
Durations == {0, 2 * Sub}

\* The leaves of the playback specification: C++ and external intervals,
\* open-ended or not.
PlayRel == {<<0, RS_previous_end>>, <<0, RS_previous_begin>>,
            <<Sub, RS_level_begin>>}
PlayLeaves ==
  {IntervalDef(ty, d, oe, r[1], r[2]) :
     ty \in {DT_c_interval, DT_ext_index}, d \in Durations, oe \in BOOLEAN,
     r \in PlayRel}

Schedules == UNION {[1..k -> PlayLeaves] : k \in 0..MaxDefs}

\* Two schedules with a group, a time of 1.0 being two ticks.  ScenarioA:
\* a group of two C++ intervals of duration 1.0, the first at the begin of
\* the group, the second at the end of the first.  ScenarioB(oe): a group
\* that holds a C++ interval of no duration at 0.5.
ScenarioA ==
  <<IntervalDef(DT_push_level, 0, FALSE, 0, RS_previous_end),
    IntervalDef(DT_c_interval, 2 * Sub, FALSE, 0, RS_level_begin),
    IntervalDef(DT_c_interval, 2 * Sub, FALSE, 0, RS_previous_end),
    IntervalDef(DT_pop_level, 0, FALSE, 0, RS_previous_end)>>
ScenarioB(oe) ==
  <<IntervalDef(DT_push_level, 0, FALSE, 0, RS_previous_end),
    IntervalDef(DT_c_interval, 0, oe, Sub, RS_level_begin),
    IntervalDef(DT_pop_level, 0, FALSE, 0, RS_previous_end)>>
ScenarioSchedules == {ScenarioA} \cup {ScenarioB(oe) : oe \in BOOLEAN}

\* The times the playback operations are called with: every tick up to
\* MaxTime, and a time before the start.
PlayTimes == {q * Sub : q \in (-1)..MaxTime}

\* The inputs of the editing specification.  A duration of 1 is a quarter
\* of a tick, which rounds to none.
EditRel == {<<0, RS_previous_end>>, <<Sub, RS_previous_begin>>,
            <<-Sub, RS_level_begin>>}
CIntervals == {CInterval(Sub, TRUE)}
ExtDurations == {-Sub, 1}

NestingLevel(ds) ==
  Cardinality({i \in 1..Len(ds) : ds[i].type = DT_push_level})
  - Cardinality({i \in 1..Len(ds) : ds[i].type = DT_pop_level})

NoOp == [name |-> "none", t |-> 0]

\* The state after an operation that left the object as r and returned res.
Becomes(name, t, r, res) ==
  /\ defs' = r.defs
  /\ current_nesting_level' = r.current_nesting_level
  /\ dirty' = r.dirty
  /\ events' = r.events
  /\ end_time' = r.end_time
  /\ addr' = r.addr
  /\ warned' = r.warned
  /\ active' = r.active
  /\ next_event_index' = r.next_event_index
  /\ event_queue' = r.event_queue
  /\ curr_t' = r.curr_t
  /\ last_op' = [name |-> name, t |-> t]
  /\ issued' = r.issued
  /\ fault' = r.fault
  /\ result' = res

\* The address orders a recompute in this state may produce.
NewOrders ==
  IF dirty THEN AddrOrders(do_recompute(defs).events) ELSE {addr}

\* The host services the queue down to MaxPending events before it asks for
\* another playback operation.
HostReady == Len(event_queue) <= MaxPending

\* ------------------------------------------------------------ the actions

Initialize(t) ==
  /\ HostReady
  /\ \E order \in NewOrders :
       Becomes("initialize", t, initialize(This, order, t), 0)

Instant ==
  /\ HostReady
  /\ \E order \in NewOrders : Becomes("instant", 0, instant(This, order), 0)

Step(t) ==
  /\ HostReady
  /\ Becomes("step", t, step(This, t), 0)

Finalize ==
  /\ HostReady
  /\ \E order \in NewOrders : Becomes("finalize", 0, finalize(This, order), 0)

ReverseInitialize(t) ==
  /\ HostReady
  /\ \E order \in NewOrders :
       Becomes("reverse_initialize", t, reverse_initialize(This, order, t), 0)

ReverseInstant ==
  /\ HostReady
  /\ \E order \in NewOrders :
       Becomes("reverse_instant", 0, reverse_instant(This, order), 0)

ReverseFinalize ==
  /\ HostReady
  /\ Becomes("reverse_finalize", 0, reverse_finalize(This), 0)

\* is_event_ready() (cMetaInterval.I) returns service_event_queue().
ServiceEventQueue ==
  Becomes("service_event_queue", 0, service_event_queue(This),
          IF service_event_queue_result(This) THEN 1 ELSE 0)

\* The host has played the external event at the head and removes it.
PopEvent ==
  /\ event_queue # <<>>
  /\ Def(defs, Head(event_queue).n).type = DT_ext_index
  /\ Becomes("pop_event", 0, pop_event(This), 0)

\* The editing specification appends to a list until it is compiled.
Building == (dirty \/ defs = <<>>) /\ Len(defs) < MaxEditDefs

PushLevel(rel_time, rel_to) ==
  /\ Building
  /\ LET after == push_level(This, rel_time, rel_to)
     IN Becomes("push_level", 0, after, ReturnedIndex(after))

AddCInterval(c_interval, rel_time, rel_to) ==
  /\ Building
  /\ LET after == add_c_interval(This, c_interval, rel_time, rel_to)
     IN Becomes("add_c_interval", 0, after, ReturnedIndex(after))

AddExtIndex(duration, open_ended, rel_time, rel_to) ==
  /\ Building
  /\ LET after == add_ext_index(This, duration, open_ended, rel_time, rel_to)
     IN Becomes("add_ext_index", 0, after, ReturnedIndex(after))

PopLevel ==
  /\ Building
  /\ LET after == pop_level(This)
     IN Becomes("pop_level", 0, after, ReturnedIndex(after))

ClearIntervals == Becomes("clear_intervals", 0, clear_intervals(This), 0)

Write == \E order \in NewOrders : Becomes("write", 0, write(This, order), 0)

\* ------------------------------------------------- playback specification

\* A compiled schedule, before any playback.
Init ==
  \E ds \in Schedules \cup ScenarioSchedules :
    LET r == do_recompute(ds)
    IN /\ defs = r.defs
       /\ current_nesting_level = NestingLevel(ds)
       /\ dirty = FALSE
       /\ events = r.events
       /\ end_time = r.end_time
       /\ addr \in AddrOrders(r.events)
       /\ warned = r.warned
       /\ active = {}
       /\ next_event_index = 0
       /\ event_queue = <<>>
       /\ curr_t = 0
       /\ last_op = NoOp
       /\ issued = <<>>
       /\ fault = FALSE
       /\ result = 0

Next ==
  \/ \E t \in PlayTimes : Initialize(t)
  \/ \E t \in PlayTimes : Step(t)
  \/ Finalize
  \/ Instant
  \/ \E t \in PlayTimes : ReverseInitialize(t)
  \/ ReverseInstant
  \/ ReverseFinalize
  \/ ServiceEventQueue
  \/ PopEvent

Spec == Init /\ [][Next]_vars

\* -------------------------------------------------- editing specification

\* The CMetaInterval as its constructor leaves it.
InitEdit ==
  /\ defs = <<>>
  /\ current_nesting_level = 0
  /\ dirty = FALSE
  /\ events = <<>>
  /\ end_time = 0
  /\ addr = <<>>
  /\ warned = FALSE
  /\ active = {}
  /\ next_event_index = 0
  /\ event_queue = <<>>
  /\ curr_t = 0
  /\ last_op = NoOp
  /\ issued = <<>>
  /\ fault = FALSE
  /\ result = 0

NextEdit ==
  \/ \E r \in EditRel : PushLevel(r[1], r[2])
  \/ \E c \in CIntervals \cup {NULL}, r \in EditRel :
       AddCInterval(c, r[1], r[2])
  \/ \E d \in ExtDurations, r \in EditRel : AddExtIndex(d, FALSE, r[1], r[2])
  \/ PopLevel
  \/ Write

SpecEdit == InitEdit /\ [][NextEdit]_vars

\* ------------------------------------------------- clearing specification

\* A list of groups and external intervals is built, played from a time,
\* its events handed to the host, and cleared, in any order.
ClearTimes == {0, Sub}

NextClear ==
  \/ PushLevel(0, RS_previous_end)
  \/ \E oe \in BOOLEAN : AddExtIndex(2 * Sub, oe, 0, RS_previous_end)
  \/ PopLevel
  \/ \E t \in ClearTimes : Initialize(t)
  \/ PopEvent
  \/ ClearIntervals

SpecClear == InitEdit /\ [][NextClear]_vars

\* ---------------------------------------- appending-while-playing specification

\* Nothing stops add_c_interval once the list has been compiled and is
\* being played: it appends and marks the list dirty, and the next
\* recompute (write, initialize) rebuilds the events.  Here intervals of two
\* ticks are appended at any moment, up to MaxDefs of them.
LiveIntervals == {CInterval(2 * Sub, TRUE)}
LiveRel == {<<0, RS_previous_end>>, <<0, RS_level_begin>>}

AddCIntervalLive(c_interval, rel_time, rel_to) ==
  /\ Len(defs) < MaxDefs
  /\ LET after == add_c_interval(This, c_interval, rel_time, rel_to)
     IN Becomes("add_c_interval", 0, after, ReturnedIndex(after))

\* finalize on a dirty list is left out: its get_duration() deletes the
\* events its new_active set points to before finish_events_forward reads
\* them.
FinalizeCompiled == ~dirty /\ Finalize

NextLive ==
  \/ \E c \in LiveIntervals, r \in LiveRel : AddCIntervalLive(c, r[1], r[2])
  \/ Write
  \/ \E t \in PlayTimes : Initialize(t)
  \/ \E t \in PlayTimes : Step(t)
  \/ FinalizeCompiled

SpecLive == InitEdit /\ [][NextLive]_vars

\* ------------------------------------------------------------ the claims

\* The def indices of the list, and those of its leaves.
DefIndices == 0..(Len(defs) - 1)
Leaves == {n \in DefIndices : IsLeaf(Def(defs, n))}

\* The positions in _events (from 1) of the events of definition n of the
\* given types.
EventsOf(n, types) ==
  {i \in 1..Len(events) : events[i].n = n /\ events[i].type \in types}

\* The quantized duration of leaf n.
QuantizedDuration(n) == double_to_int_time(Def(defs, n).duration)

\* C1: after compilation every leaf has exactly one instant event and no
\* other if its quantized duration is zero, and otherwise exactly one begin
\* and one end event and no instant, the end at a time greater than or equal
\* to the begin's; push and pop entries have no events.
C1_Balance ==
  ~dirty =>
    \A n \in DefIndices :
      IF n \in Leaves
        THEN IF QuantizedDuration(n) = 0
               THEN /\ Cardinality(EventsOf(n, {PET_instant})) = 1
                    /\ EventsOf(n, {PET_begin, PET_end}) = {}
               ELSE /\ Cardinality(EventsOf(n, {PET_begin})) = 1
                    /\ Cardinality(EventsOf(n, {PET_end})) = 1
                    /\ EventsOf(n, {PET_instant}) = {}
                    /\ \A b \in EventsOf(n, {PET_begin}),
                          e \in EventsOf(n, {PET_end}) :
                         events[e].time >= events[b].time
        ELSE EventsOf(n, {PET_begin, PET_end, PET_instant}) = {}

\* The events in the order recompute_level emits them, before the sort.
Emitted == recompute_level(defs, <<>>, 0, 0).events

\* C2: after compilation the events are in non-decreasing order of time, and
\* two events of equal time are in the order in which they were emitted, so
\* that their definition indices do not decrease.
C2_SortedStable ==
  ~dirty =>
    LET em  == Emitted
        pos == [i \in 1..Len(events) |->
                  CHOOSE k \in 1..Len(em) : em[k] = events[i]]
    IN /\ Len(em) = Len(events)
       /\ \A i, j \in 1..Len(events) :
            i < j =>
              /\ events[i].time <= events[j].time
              /\ events[i].time = events[j].time =>
                   pos[i] < pos[j] /\ events[i].n <= events[j].n

\* A compiled list whose sort moved an event, with two events of different
\* definitions at the same time.
C2_Witness ==
  /\ ~dirty
  /\ events # Emitted
  /\ \E i, j \in 1..Len(events) :
       i < j /\ events[i].time = events[j].time /\ events[i].n # events[j].n

\* The callbacks of forward play, and the playback operations.
ForwardTypes == {ET_initialize, ET_instant, ET_finalize}
ForwardOps == {"initialize", "step", "finalize"}
PlaybackOps == {"initialize", "step", "finalize", "instant",
                "reverse_initialize", "reverse_instant", "reverse_finalize"}

\* The position in evs (from 1) of the begin event of definition n, or of
\* its instant event; and of its end event, or of its instant event.
BeginPos(evs, n) ==
  CHOOSE i \in 1..Len(evs) :
    evs[i].n = n /\ evs[i].type \in {PET_begin, PET_instant}
EndPos(evs, n) ==
  CHOOSE i \in 1..Len(evs) :
    evs[i].n = n /\ evs[i].type \in {PET_end, PET_instant}

\* The position of the event a forward callback is given for: the begin
\* event for an initialize, else the end or instant event.
CallbackPos(evs, c) ==
  IF c.event_type = ET_initialize THEN BeginPos(evs, c.n)
  ELSE EndPos(evs, c.n)

\* The pairs of callbacks of forward types that the last operation issued
\* one before the other.
ForwardPairs ==
  {p \in (1..Len(issued)) \X (1..Len(issued)) :
     /\ p[1] < p[2]
     /\ issued[p[1]].event_type \in ForwardTypes
     /\ issued[p[2]].event_type \in ForwardTypes}

\* C3: in forward play, two callbacks given for events of equal time are
\* issued in the declaration order of their entries, an initialize issued at
\* the end of the pass included.
C3_TieOrder ==
  last_op.name \in ForwardOps =>
    \A p \in ForwardPairs :
      events[CallbackPos(events, issued[p[1]])].time
        = events[CallbackPos(events, issued[p[2]])].time
      => issued[p[1]].n < issued[p[2]].n

PassPart(event_type) ==
  CASE event_type = ET_step -> 1
    [] event_type \in {ET_initialize, ET_reverse_initialize} -> 2
    [] OTHER -> 0

RECURSIVE QueuedEntries(_)
QueuedEntries(iss) ==
  IF iss = <<>> THEN <<>>
  ELSE (IF Head(iss).how = "queued"
          THEN <<EventQueueEntry(Head(iss).n, Head(iss).event_type,
                                 Head(iss).time)>>
          ELSE <<>>) \o QueuedEntries(Tail(iss))

IsExternal(n) == Def(defs, n).type = DT_ext_index

\* The number of C++ events at the head of queue q.
RECURSIVE NativeRun(_)
NativeRun(q) ==
  IF q = <<>> \/ IsExternal(Head(q).n) THEN 0 ELSE 1 + NativeRun(Tail(q))

C5_Operation ==
  /\ last_op'.name \in PlaybackOps =>
       /\ event_queue' = event_queue \o QueuedEntries(issued')
       /\ \A i, j \in 1..Len(issued') :
            i < j /\ issued'[i].how = "queued" => issued'[j].how = "queued"
       /\ \A i \in 1..Len(issued') :
            /\ issued'[i].how \in {"invoked", "queued"}
            /\ issued'[i].how = "invoked" =>
                 event_queue = <<>> /\ ~IsExternal(issued'[i].n)
  /\ last_op'.name = "service_event_queue" =>
       LET k == NativeRun(event_queue)
       IN /\ event_queue' = SubSeq(event_queue, k + 1, Len(event_queue))
          /\ Len(issued') = k
          /\ \A i \in 1..k :
               /\ issued'[i].how = "invoked"
               /\ EventQueueEntry(issued'[i].n, issued'[i].event_type,
                                  issued'[i].time) = event_queue[i]
  /\ last_op'.name = "pop_event" =>
       /\ event_queue # <<>>
       /\ IsExternal(Head(event_queue).n)
       /\ event_queue' = Tail(event_queue)

\* C5: the queue is first in, first out.  A playback operation invokes a
\* C++ callback only while the queue is empty; once it has queued a
\* callback it queues every later one, behind what was pending.
\* service_event_queue invokes and removes exactly the C++ events at the
\* head, in order, and only the host removes an external event, from the
\* head.
C5_Fifo == [][C5_Operation]_vars

\* Scenario E: an external interval, then a C++ interval declared after it
\* and starting at the same time; a step has queued the C++ callback behind
\* the external one.
C5_Witness ==
  /\ last_op.name = "step"
  /\ Len(event_queue) = 2
  /\ IsExternal(event_queue[1].n)
  /\ ~IsExternal(event_queue[2].n)
  /\ event_queue[1].n < event_queue[2].n
  /\ Def(defs, event_queue[1].n).actual_begin_time
       = Def(defs, event_queue[2].n).actual_begin_time

SameStepTwice ==
  /\ last_op.name = "step"
  /\ last_op'.name = "step"
  /\ last_op'.t = last_op.t

\* C6 as claimed: a second step(t) with the same t issues no callback and
\* leaves the cursor and the active set as they were.
C6_SecondStepNoOp ==
  [][SameStepTwice =>
       /\ issued' = <<>>
       /\ next_event_index' = next_event_index
       /\ active' = active]_vars

\* C6, amended: a second step(t) with the same t leaves the cursor and the
\* active set as they were and issues exactly one step callback, with
\* offset now - begin, to each active interval, and no other callback.
C6_SecondStepOnlySteps ==
  [][SameStepTwice =>
       /\ next_event_index' = next_event_index
       /\ active' = active
       /\ Len(issued') = Cardinality(active)
       /\ \A n \in active :
            \E i \in 1..Len(issued') :
              /\ issued'[i].n = n
              /\ issued'[i].event_type = ET_step
              /\ issued'[i].time = double_to_int_time(last_op'.t)
                                     - Def(defs, n).actual_begin_time]_vars

\* A step that issued a step callback to an active interval and nothing
\* else, the cursor inside the events list.
C6_Witness ==
  /\ last_op.name = "step"
  /\ active # {}
  /\ Len(issued) = Cardinality(active)
  /\ \A i \in 1..Len(issued) : issued[i].event_type = ET_step
  /\ next_event_index > 0

\* The intervals whose begin event is at or before now and whose end event
\* is later; and the number of events at or before now.
OpenAt(evs, now) ==
  {n \in {evs[i].n : i \in 1..Len(evs)} :
     \E b, e \in 1..Len(evs) :
       /\ evs[b].n = n /\ evs[b].type = PET_begin /\ evs[b].time <= now
       /\ evs[e].n = n /\ evs[e].type = PET_end /\ evs[e].time > now}
CursorAt(evs, now) == Cardinality({i \in 1..Len(evs) : evs[i].time <= now})

InitializeOps == {"initialize", "reverse_initialize"}

\* C7: initialize(t) and reverse_initialize(t) each leave as the active set
\* the intervals that begin at or before t and end after t, and the cursor
\* after the events at or before t; so either of them, called after the
\* other with the same t, changes neither.
C7_RoundTrip ==
  [][/\ last_op'.name \in InitializeOps =>
          /\ active' = OpenAt(events', double_to_int_time(last_op'.t))
          /\ next_event_index'
               = CursorAt(events', double_to_int_time(last_op'.t))
     /\ (/\ last_op.name \in InitializeOps
         /\ last_op'.name \in InitializeOps
         /\ last_op'.t = last_op.t)
        => active' = active /\ next_event_index' = next_event_index]_vars

\* reverse_initialize(t) has left an interval active, the cursor inside
\* the events list.
C7_Witness ==
  /\ last_op.name = "reverse_initialize"
  /\ active # {}
  /\ next_event_index > 0
  /\ next_event_index < Len(events)

\* The callbacks of the last operation that were issued to definition n.
IssuedTo(n) == {i \in 1..Len(issued) : issued[i].n = n}

\* C8: initialize(t) issues nothing to an interval that is not open-ended
\* and whose end (or instant) event is at or before t, and exactly one
\* instant to an open-ended one.
C8_SkipSuppression ==
  last_op.name = "initialize" =>
    \A n \in Leaves :
      events[EndPos(events, n)].time <= double_to_int_time(last_op.t) =>
        IF Def(defs, n).open_ended
          THEN /\ Cardinality(IssuedTo(n)) = 1
               /\ \A i \in IssuedTo(n) : issued[i].event_type = ET_instant
          ELSE IssuedTo(n) = {}

\* initialize(t) has passed the end of an interval of non-zero duration
\* that is not open-ended and the instant of an open-ended one, one of them
\* external and one not.
C8_Witness ==
  /\ last_op.name = "initialize"
  /\ \E n, m \in Leaves :
       /\ ~Def(defs, n).open_ended
       /\ QuantizedDuration(n) > 0
       /\ events[EndPos(events, n)].time <= double_to_int_time(last_op.t)
       /\ IssuedTo(n) = {}
       /\ Def(defs, m).open_ended
       /\ events[EndPos(events, m)].time <= double_to_int_time(last_op.t)
       /\ IssuedTo(m) # {}
       /\ IsExternal(n) # IsExternal(m)

\* C9: after finalize the active set is empty and the cursor is at the end
\* of the events list; after reverse_finalize the active set is empty and
\* the cursor is 0.
C9_EmptyAfterFinalize ==
  /\ last_op.name = "finalize" =>
       active = {} /\ next_event_index = Len(events)
  /\ last_op.name = "reverse_finalize" =>
       active = {} /\ next_event_index = 0

\* finalize has finalized an interval that was active and passed one that
\* had not begun.
C9_Witness ==
  /\ last_op.name = "finalize"
  /\ \E i, j \in 1..Len(issued) :
       /\ issued[i].event_type = ET_finalize
       /\ issued[j].event_type = ET_instant

\* C10: finalize issues exactly one finalize to each active interval,
\* exactly one instant to each interval whose end or instant event is at or
\* after the cursor and that is not active, and nothing to the others;
\* reverse_finalize issues exactly one reverse_finalize to each active
\* interval, exactly one reverse_instant to each interval that is not active
\* and whose begin or instant event is before the cursor, and nothing to
\* the others.
C10_Terminating ==
  [][/\ last_op'.name = "finalize" =>
          \A n \in Leaves :
            LET to == {i \in 1..Len(issued') : issued'[i].n = n}
            IN IF n \in active
                 THEN /\ Cardinality(to) = 1
                      /\ \A i \in to : issued'[i].event_type = ET_finalize
                 ELSE IF EndPos(events, n) > next_event_index
                   THEN /\ Cardinality(to) = 1
                        /\ \A i \in to : issued'[i].event_type = ET_instant
                   ELSE to = {}
     /\ last_op'.name = "reverse_finalize" =>
          \A n \in Leaves :
            LET to == {i \in 1..Len(issued') : issued'[i].n = n}
            IN IF n \in active
                 THEN /\ Cardinality(to) = 1
                      /\ \A i \in to :
                           issued'[i].event_type = ET_reverse_finalize
                 ELSE IF BeginPos(events, n) <= next_event_index
                   THEN /\ Cardinality(to) = 1
                        /\ \A i \in to :
                             issued'[i].event_type = ET_reverse_instant
                   ELSE to = {}]_vars

\* reverse_finalize has undone an interval that was active and one that lay
\* before the cursor.
C10_Witness ==
  /\ last_op.name = "reverse_finalize"
  /\ \E i, j \in 1..Len(issued) :
       /\ issued[i].event_type = ET_reverse_finalize
       /\ issued[j].event_type = ET_reverse_instant

\* C11: instant() issues exactly one instant callback to every leaf,
\* open-ended or not, in the order of the end and instant events of the
\* events list; it leaves the active set empty, the cursor at the end of
\* the events list and the total duration as the current time.
C11_InstantAll ==
  last_op.name = "instant" =>
    /\ \A n \in Leaves :
         /\ Cardinality(IssuedTo(n)) = 1
         /\ \A i \in IssuedTo(n) : issued[i].event_type = ET_instant
    /\ \A i, j \in 1..Len(issued) :
         i < j => EndPos(events, issued[i].n) < EndPos(events, issued[j].n)
    /\ active = {}
    /\ next_event_index = Len(events)
    /\ curr_t = int_to_double_time(end_time)

\* C12: a playback operation invokes a callback at once exactly when it
\* is for a C++ interval and the queue is empty at the moment it is issued
\* (the queue is then still empty); every other callback it issues, for an
\* external interval or with the queue not empty, is appended at the tail of
\* the queue and not invoked.
C12_SynchronousIffEmpty ==
  [][last_op'.name \in PlaybackOps =>
       \A i \in 1..Len(issued') :
         LET before ==
               event_queue \o QueuedEntries(SubSeq(issued', 1, i - 1))
             c == issued'[i]
         IN /\ c.how \in {"invoked", "queued"}
            /\ (c.how = "invoked") <=> (~IsExternal(c.n) /\ before = <<>>)
            /\ c.how = "queued" =>
                 /\ Len(event_queue') > Len(before)
                 /\ event_queue'[Len(before) + 1]
                      = EventQueueEntry(c.n, c.event_type, c.time)]_vars

\* An operation that found the queue empty has invoked a callback of a C++
\* interval and then queued one of an external interval.
C12_Witness ==
  /\ last_op.name \in PlaybackOps
  /\ Len(issued) = 2
  /\ issued[1].how = "invoked" /\ ~IsExternal(issued[1].n)
  /\ issued[2].how = "queued" /\ IsExternal(issued[2].n)
  /\ event_queue
       = <<EventQueueEntry(issued[2].n, issued[2].event_type, issued[2].time)>>

\* C13: service_event_queue invokes and removes, in order, exactly the C++
\* events at the head of the queue, and leaves the rest of the queue, from
\* the first external event on, as it was; it returns true iff the queue is
\* then not empty, an external event at its head, and false iff the queue is
\* then empty.
C13_ServiceQueue ==
  [][last_op'.name = "service_event_queue" =>
       LET k == NativeRun(event_queue)
       IN /\ issued' = [i \in 1..k |->
                          [n |-> event_queue[i].n,
                           event_type |-> event_queue[i].event_type,
                           time |-> event_queue[i].time, how |-> "invoked"]]
          /\ event_queue' = SubSeq(event_queue, k + 1, Len(event_queue))
          /\ (result' = 1) <=>
               (event_queue' # <<>> /\ IsExternal(Head(event_queue').n))
          /\ (result' = 0) <=> (event_queue' = <<>>)
          /\ result' \in {0, 1}]_vars

\* service_event_queue has invoked a C++ event from the head of the queue
\* and stopped at an external event, with an event behind it.
C13_Witness ==
  /\ last_op.name = "service_event_queue"
  /\ issued # <<>>
  /\ result = 1
  /\ Len(event_queue) >= 2

\* C14: clear_intervals called while the queue is not empty is refused and
\* leaves the definitions, the events, the active set, the cursor, the
\* nesting level and the queue as they were; called with the queue empty it
\* empties the definitions, the events and the active set and sets the
\* cursor and the nesting level to 0.
C14_Clear ==
  [][last_op'.name = "clear_intervals" =>
       IF event_queue # <<>>
         THEN /\ fault'
              /\ UNCHANGED <<defs, events, active, next_event_index,
                             current_nesting_level, event_queue>>
         ELSE /\ ~fault'
              /\ defs' = <<>>
              /\ events' = <<>>
              /\ active' = {}
              /\ next_event_index' = 0
              /\ current_nesting_level' = 0
              /\ event_queue' = <<>>]_vars

\* clear_intervals has been refused with an event pending, an interval
\* active, the cursor past an event and a group open.
C14_Witness ==
  /\ last_op.name = "clear_intervals"
  /\ fault
  /\ event_queue # <<>>
  /\ active # {}
  /\ next_event_index > 0
  /\ current_nesting_level > 0

AppendOps == {"push_level", "add_c_interval", "add_ext_index", "pop_level"}

\* No prefix of ds holds more pop_level than push_level entries.
PrefixesBalanced(ds) ==
  \A k \in 0..Len(ds) : NestingLevel(SubSeq(ds, 1, k)) >= 0

\* C15: pop_level with no level open, and add_c_interval with no interval,
\* return -1 and leave the definitions, the nesting level and the dirty flag
\* as they were; an append that is accepted returns the index of the new
\* entry, the length the list had.  So the nesting level is always the
\* number of push_level entries less the number of pop_level entries, it is
\* never negative, and no prefix of the list has more pop_level than
\* push_level entries.
C15_Appends ==
  [][/\ last_op'.name \in AppendOps =>
          IF result' = -1
            THEN /\ UNCHANGED <<defs, current_nesting_level, dirty>>
                 /\ last_op'.name \in {"pop_level", "add_c_interval"}
                 /\ last_op'.name = "pop_level" => current_nesting_level = 0
            ELSE /\ result' = Len(defs)
                 /\ Len(defs') = Len(defs) + 1
                 /\ SubSeq(defs', 1, Len(defs)) = defs
     /\ (last_op'.name = "pop_level" /\ current_nesting_level = 0)
          => result' = -1
     /\ current_nesting_level' = NestingLevel(defs')
     /\ current_nesting_level' >= 0
     /\ PrefixesBalanced(defs')]_vars

\* pop_level has been refused after a group was opened and closed.
C15_Witness ==
  /\ last_op.name = "pop_level"
  /\ result = -1
  /\ Len(defs) >= 2
  /\ dirty

\* k pop_level entries.
Pops(k) ==
  [i \in 1..k |-> IntervalDef(DT_pop_level, 0, FALSE, 0, RS_previous_end)]

\* C16: a compiled list with levels left open has the events, the begin
\* times and the end time that the list has with the missing pop_level
\* entries appended; the compile ends without a fault, and it has given the
\* warning iff the list has a level left open.
C16_ImplicitPop ==
  ~dirty =>
    LET k == NestingLevel(defs)
        closed == do_recompute(defs \o Pops(k))
    IN /\ events = closed.events
       /\ end_time = closed.end_time
       /\ defs = SubSeq(closed.defs, 1, Len(defs))
       /\ warned <=> k > 0
       /\ ~closed.warned
       /\ last_op.name = "write" => ~fault

\* A list with two levels left open and an interval in the inner one has
\* been compiled.
C16_Witness ==
  /\ last_op.name = "write"
  /\ ~dirty
  /\ NestingLevel(defs) = 2
  /\ warned
  /\ \E n \in Leaves : NestingLevel(SubSeq(defs, 1, n)) = 2

\* The structure of the definition list, by position (from 1).  DepthAt(i)
\* is the number of levels open before entry i; GroupOf(i) is the position
\* of the push_level of the innermost level open there, 0 at the top level.
SetMax(S) == CHOOSE x \in S : \A y \in S : y <= x
IsPop(i) == defs[i].type = DT_pop_level
DepthAt(i) == NestingLevel(SubSeq(defs, 1, i - 1))
GroupOf(i) ==
  IF DepthAt(i) = 0 THEN 0
  ELSE SetMax({j \in 1..(i - 1) :
                 /\ defs[j].type = DT_push_level
                 /\ DepthAt(j) = DepthAt(i) - 1})

\* The entries of the level that push_level j opens (of the top level if
\* j = 0), and the entries of the level of i that come before i.
ChildrenOf(j) ==
  {c \in (j + 1)..Len(defs) : ~IsPop(c) /\ GroupOf(c) = j}
SiblingsBefore(i) ==
  {k \in 1..(i - 1) : ~IsPop(k) /\ GroupOf(k) = GroupOf(i)}

BeginOf(i) == defs[i].actual_begin_time
LevelBeginOf(i) == IF GroupOf(i) = 0 THEN 0 ELSE BeginOf(GroupOf(i))

\* The end of entry i: of a leaf, its begin and its duration in ticks; of a
\* level, the latest of its begin and the ends of its entries.
RECURSIVE EndOf(_)
EndOf(i) ==
  IF IsLeaf(defs[i])
    THEN BeginOf(i) + double_to_int_time(defs[i].duration)
    ELSE SetMax({BeginOf(i)} \cup {EndOf(c) : c \in ChildrenOf(i)})

\* The time the begin of entry i is relative to.
BaseOf(i) ==
  IF SiblingsBefore(i) = {} THEN LevelBeginOf(i)
  ELSE LET p == SetMax(SiblingsBefore(i))
       IN CASE defs[i].rel_to = RS_previous_end -> EndOf(p)
            [] defs[i].rel_to = RS_previous_begin -> BeginOf(p)
            [] defs[i].rel_to = RS_level_begin -> LevelBeginOf(i)

\* C17: in a compiled list every push_level and every leaf begins at its
\* base plus its rel_time in ticks; the base is the end of the previous
\* entry of the same level for RS_previous_end, its begin for
\* RS_previous_begin, the begin of the level for RS_level_begin, a nested
\* level counting as an entry with the begin and the end of the level; for
\* the first entry of a level the base is the begin of the level, 0 at the
\* top.  The begin (or instant) event of a leaf has that time.
C17_BeginTimes ==
  ~dirty =>
    \A i \in 1..Len(defs) :
      ~IsPop(i) =>
        /\ BeginOf(i) = BaseOf(i) + double_to_int_time(defs[i].rel_time)
        /\ IsLeaf(defs[i]) =>
             events[BeginPos(events, i - 1)].time = BeginOf(i)

\* A compiled list in which an entry is placed at the end of a level that
\* comes before it and does not end when it begins.
C17_Witness ==
  /\ ~dirty
  /\ \E i \in 1..Len(defs) :
       /\ ~IsPop(i)
       /\ SiblingsBefore(i) # {}
       /\ defs[i].rel_to = RS_previous_end
       /\ LET p == SetMax(SiblingsBefore(i))
          IN /\ defs[p].type = DT_push_level
             /\ EndOf(p) > BeginOf(p)
             /\ BeginOf(i) = EndOf(p)

\* C18: in a compiled list the pop_level of a level is given as its begin
\* time the end of the level, which is the latest of the begin of the level
\* and the ends of its entries and so not before the begin of the level;
\* the end time of the whole list is the latest of 0 and the ends of the
\* entries of the top level.
C18_LevelEnd ==
  ~dirty =>
    /\ \A i \in 1..Len(defs) :
         IsPop(i) =>
           /\ BeginOf(i) = EndOf(GroupOf(i))
           /\ BeginOf(i) >= BeginOf(GroupOf(i))
    /\ end_time = SetMax({0} \cup {EndOf(c) : c \in ChildrenOf(0)})

\* A compiled list with a closed level that begins before 0 and holds an
\* interval that ends before the level begins.
C18_Witness ==
  /\ ~dirty
  /\ \E i \in 1..Len(defs) :
       /\ IsPop(i)
       /\ BeginOf(GroupOf(i)) < 0
       /\ \E c \in ChildrenOf(GroupOf(i)) : EndOf(c) < BeginOf(GroupOf(i))
       /\ end_time = 0

\* C19: for ScenarioA the compiled begin times are 0.0 and 1.0 (ticks 0
\* and 2), and with the first interval active step(1.5) issues finalize to
\* it and then initialize, with offset 0.5 (one tick), to the second, which
\* is left alone in the active set.  In general, when a step forward crosses
\* the end of an active interval a and the begin, but not the end, of an
\* interval b, it issues finalize to a before initialize to b, the
\* initialize with offset now - begin(b); b is then active and a is not.
C19_Operation ==
  last_op'.name = "step" =>
    LET now == double_to_int_time(last_op'.t)
        Crossed(pos) == pos > next_event_index /\ events[pos].time <= now
    IN /\ \A a \in active, b \in Leaves :
            (/\ Crossed(EndPos(events, a))
             /\ QuantizedDuration(b) > 0
             /\ Crossed(BeginPos(events, b))
             /\ events[EndPos(events, b)].time > now)
            => /\ \E i, j \in 1..Len(issued') :
                    /\ i < j
                    /\ issued'[i].n = a
                    /\ issued'[i].event_type = ET_finalize
                    /\ issued'[j].n = b
                    /\ issued'[j].event_type = ET_initialize
                    /\ issued'[j].time
                         = now - Def(defs, b).actual_begin_time
               /\ b \in active'
               /\ a \notin active'
       /\ (/\ last_op'.t = 3 * Sub
           /\ active = {1}
           /\ next_event_index = 1
           /\ defs = do_recompute(ScenarioA).defs)
          => /\ Def(defs, 1).actual_begin_time = 0
             /\ Def(defs, 2).actual_begin_time = 2
             /\ issued' = <<[n |-> 1, event_type |-> ET_finalize, time |-> 0,
                             how |-> "invoked"],
                            [n |-> 2, event_type |-> ET_initialize,
                             time |-> 1, how |-> "invoked"]>>
             /\ active' = {2}

C19_FinalizeThenInitialize == [][C19_Operation]_vars

\* ScenarioA after step(1.5): finalize to the first interval, then
\* initialize to the second with offset one tick, the second alone active.
C19_Witness ==
  /\ defs = do_recompute(ScenarioA).defs
  /\ last_op = [name |-> "step", t |-> 3 * Sub]
  /\ Len(issued) = 2
  /\ issued[1].n = 1 /\ issued[1].event_type = ET_finalize
  /\ issued[2].n = 2 /\ issued[2].event_type = ET_initialize
  /\ issued[2].time = 1
  /\ active = {2}

\* C20: a leaf whose duration is no tick has one event, an instant event
\* at its begin time (ScenarioB: tick 1, time 0.5); every step forward that
\* crosses that event issues exactly one callback to the leaf, an instant,
\* open-ended or not (ScenarioB: step(1.0) issues that one callback and no
\* other); the leaf is never in the active set and is never issued an
\* initialize, a step or a finalize.
C20_Operation ==
  /\ \A n \in Leaves :
       QuantizedDuration(n) = 0 =>
         LET own == {i \in 1..Len(events) : events[i].n = n}
             to  == {i \in 1..Len(issued') : issued'[i].n = n}
             now == double_to_int_time(last_op'.t)
         IN /\ Cardinality(own) = 1
            /\ \A i \in own :
                 /\ events[i].type = PET_instant
                 /\ events[i].time = Def(defs, n).actual_begin_time
                 /\ (/\ last_op'.name = "step"
                     /\ i > next_event_index
                     /\ events[i].time <= now)
                    => /\ Cardinality(to) = 1
                       /\ \A k \in to : issued'[k].event_type = ET_instant
            /\ n \notin active'
            /\ \A k \in to :
                 issued'[k].event_type \in {ET_instant, ET_reverse_instant}
  /\ \A oe \in BOOLEAN :
       (/\ last_op' = [name |-> "step", t |-> 2 * Sub]
        /\ next_event_index = 0
        /\ defs = do_recompute(ScenarioB(oe)).defs)
       => /\ events = <<PlaybackEvent(1, 1, PET_instant)>>
          /\ issued' = <<[n |-> 1, event_type |-> ET_instant, time |-> 0,
                          how |-> "invoked"]>>
          /\ active' = {}

C20_InstantOnStep == [][C20_Operation]_vars

\* ScenarioB with an interval that is not open-ended, after step(1.0): the
\* one instant callback.
C20_Witness ==
  /\ defs = do_recompute(ScenarioB(FALSE)).defs
  /\ last_op = [name |-> "step", t |-> 2 * Sub]
  /\ Len(issued) = 1
  /\ issued[1].n = 1 /\ issued[1].event_type = ET_instant
  /\ active = {}

\* A forward pass: initialize, finalize, or a step that finds the next event
\* at or before the time it is given.  PassNow is that time in ticks,
\* PassFrom the cursor the pass starts from, PassActive the active set it
\* starts with; PassCrossed(pos) says that the pass goes over the event at
\* position pos.
PassNow == double_to_int_time(last_op'.t)
IsForwardPass ==
  \/ last_op'.name \in {"initialize", "finalize"}
  \/ /\ last_op'.name = "step"
     /\ next_event_index < Len(events)
     /\ events[next_event_index + 1].time <= PassNow
PassFrom == IF last_op'.name = "initialize" THEN 0 ELSE next_event_index
PassActive == IF last_op'.name = "initialize" THEN {} ELSE active
PassCrossed(pos) ==
  /\ pos > PassFrom
  /\ last_op'.name = "finalize" \/ events[pos].time <= PassNow

\* The callbacks the operation issued to definition n are exactly one, of
\* the given type.
OnlyIssued(n, event_type) ==
  LET to == {i \in 1..Len(issued') : issued'[i].n = n}
  IN /\ Cardinality(to) = 1
     /\ \A i \in to : issued'[i].event_type = event_type

\* C21 as claimed: in every forward pass a leaf of non-zero duration whose
\* begin and end are both crossed is issued exactly one instant and is not
\* active afterwards, and a leaf that was active and whose end is crossed is
\* issued exactly one finalize and is not active afterwards.
C21_CollapseEveryPass ==
  [][IsForwardPass =>
       \A n \in Leaves :
         QuantizedDuration(n) > 0 =>
           /\ (PassCrossed(BeginPos(events, n)) /\ PassCrossed(EndPos(events, n)))
                => OnlyIssued(n, ET_instant) /\ n \notin active'
           /\ (n \in PassActive /\ PassCrossed(EndPos(events, n)))
                => OnlyIssued(n, ET_finalize) /\ n \notin active']_vars

\* C21, amended: as claimed for step and finalize, and for initialize when
\* the leaf is open-ended; initialize issues nothing to a leaf that is not
\* open-ended and whose begin and end it crosses.
C21_Collapse ==
  [][IsForwardPass =>
       \A n \in Leaves :
         QuantizedDuration(n) > 0 =>
           /\ (PassCrossed(BeginPos(events, n)) /\ PassCrossed(EndPos(events, n)))
                => /\ n \notin active'
                   /\ IF last_op'.name = "initialize" /\ ~Def(defs, n).open_ended
                        THEN \A i \in 1..Len(issued') : issued'[i].n # n
                        ELSE OnlyIssued(n, ET_instant)
           /\ (n \in PassActive /\ PassCrossed(EndPos(events, n)))
                => OnlyIssued(n, ET_finalize) /\ n \notin active']_vars

\* A step has gone over the begin and the end of a leaf that is not
\* open-ended, issuing it an instant, and over the end of an active leaf,
\* issuing it a finalize.
C21_Witness ==
  /\ last_op.name = "step"
  /\ \E n, m \in Leaves :
       /\ QuantizedDuration(n) > 0
       /\ ~Def(defs, n).open_ended
       /\ \E i \in IssuedTo(n) : issued[i].event_type = ET_instant
       /\ \E i \in IssuedTo(m) : issued[i].event_type = ET_finalize

\* A step that goes backward: the next event, if any, is after the time it
\* is given.  It goes over the events before the cursor that are after that
\* time.
IsReverseStep ==
  /\ last_op'.name = "step"
  /\ ~(/\ next_event_index < Len(events)
       /\ events[next_event_index + 1].time <= PassNow)
Undone(pos) == pos <= next_event_index /\ events[pos].time > PassNow

\* C22: a step backward to t undoes exactly the events before the cursor
\* whose time is after t, the latest first.  A leaf whose end and begin are
\* both undone is issued exactly one reverse_instant; a leaf whose end only
\* is undone is issued exactly one reverse_initialize, with offset
\* t - begin, and is then active; an active leaf whose begin is undone is
\* issued exactly one reverse_finalize and is then not active; a leaf whose
\* instant event is undone is issued exactly one reverse_instant.  A leaf
\* none of whose events is undone is issued at most a step.
C22_ReverseStep ==
  [][IsReverseStep =>
       /\ next_event_index'
            = Cardinality({i \in 1..next_event_index :
                             events[i].time <= PassNow})
       /\ \A n \in Leaves :
            LET b == BeginPos(events, n)
                e == EndPos(events, n)
            IN /\ (Undone(b) /\ Undone(e))
                    => OnlyIssued(n, ET_reverse_instant) /\ n \notin active'
               /\ (Undone(e) /\ b <= next_event_index /\ ~Undone(b))
                    => /\ OnlyIssued(n, ET_reverse_initialize)
                       /\ \A i \in 1..Len(issued') :
                            issued'[i].n = n =>
                              issued'[i].time
                                = PassNow - Def(defs, n).actual_begin_time
                       /\ n \in active'
               /\ (n \in active /\ Undone(b))
                    => OnlyIssued(n, ET_reverse_finalize) /\ n \notin active'
               /\ (~Undone(b) /\ ~Undone(e))
                    => /\ \A i \in 1..Len(issued') :
                            issued'[i].n = n
                              => issued'[i].event_type = ET_step
                       /\ n \in active' <=> n \in active
       /\ \A i, j \in 1..Len(issued') :
            (/\ i < j
             /\ issued'[i].event_type
                  \in {ET_reverse_instant, ET_reverse_finalize}
             /\ issued'[j].event_type
                  \in {ET_reverse_instant, ET_reverse_finalize})
            => BeginPos(events, issued'[i].n) > BeginPos(events, issued'[j].n)
     ]_vars

\* A step backward has undone the end of one leaf, issuing it a
\* reverse_initialize with an offset that is not 0, and the begin of an
\* active leaf, issuing it a reverse_finalize.
C22_Witness ==
  /\ last_op.name = "step"
  /\ \E i, j \in 1..Len(issued) :
       /\ issued[i].event_type = ET_reverse_finalize
       /\ issued[j].event_type = ET_reverse_initialize
       /\ issued[j].time > 0

\* The passes that end with finish_events_forward or finish_events_reverse
\* at the time they are given, and the active set their scan starts with:
\* initialize and reverse_initialize empty it first.
ReconciledOps == {"initialize", "step", "reverse_initialize"}
ScanActive ==
  IF last_op'.name \in {"initialize", "reverse_initialize"} THEN {}
  ELSE active
PassInitialize ==
  IF IsForwardPass THEN ET_initialize ELSE ET_reverse_initialize

\* Every callback of the operation to definition n has offset now - begin,
\* which is at least 0 and less than the duration of n in ticks.
OffsetFromBegin(n) ==
  \A i \in 1..Len(issued') :
    issued'[i].n = n =>
      /\ issued'[i].time = PassNow - Def(defs, n).actual_begin_time
      /\ issued'[i].time >= 0
      /\ issued'[i].time < QuantizedDuration(n)

\* C23: at the end of an initialize, step or reverse_initialize pass to now,
\* each leaf that was active when the scan started and is still active is
\* issued exactly one step, and each leaf that became active is issued
\* exactly one initialize (reverse_initialize in a pass backward); no other
\* leaf is issued a step or an initialize; every step is issued before every
\* initialize; the offset of each of them is now - begin, at least 0 and
\* less than the duration of the leaf in ticks.
C23_Reconcile ==
  [][last_op'.name \in ReconciledOps =>
       /\ \A n \in Leaves :
            /\ (n \in ScanActive /\ n \in active')
                 => OnlyIssued(n, ET_step) /\ OffsetFromBegin(n)
            /\ (n \notin ScanActive /\ n \in active')
                 => OnlyIssued(n, PassInitialize) /\ OffsetFromBegin(n)
       /\ \A i \in 1..Len(issued') :
            /\ issued'[i].event_type = ET_step
                 => issued'[i].n \in ScanActive \cap active'
            /\ issued'[i].event_type
                 \in {ET_initialize, ET_reverse_initialize}
                 => /\ issued'[i].n \in active' \ ScanActive
                    /\ issued'[i].event_type = PassInitialize
       /\ \A i, j \in 1..Len(issued') :
            (i < j /\ issued'[j].event_type = ET_step)
              => issued'[i].event_type
                   \notin {ET_initialize, ET_reverse_initialize}]_vars

\* A pass has issued a step, with an offset that is not 0, to a leaf that
\* stays active and then an initialize to one that became active.
C23_Witness ==
  /\ last_op.name = "step"
  /\ \E i, j \in 1..Len(issued) :
       /\ i < j
       /\ issued[i].event_type = ET_step
       /\ issued[i].time > 0
       /\ issued[j].event_type = ET_initialize
       /\ issued[j].n \in active

\* C24: initialize and reverse_initialize leave the events that were
\* pending in the queue where they were, in their order, and append what
\* they issue behind them; with an event pending they invoke nothing, the
\* callbacks of C++ intervals being queued too.
C24_QueueKept ==
  [][last_op'.name \in InitializeOps =>
       /\ Len(event_queue') >= Len(event_queue)
       /\ SubSeq(event_queue', 1, Len(event_queue)) = event_queue
       /\ SubSeq(event_queue', Len(event_queue) + 1, Len(event_queue'))
            = QueuedEntries(issued')
       /\ event_queue # <<>> =>
            \A i \in 1..Len(issued') : issued'[i].how = "queued"]_vars

\* initialize has been called with an event pending and has queued the
\* callback of a C++ interval behind it.
C24_Witness ==
  /\ last_op.name = "initialize"
  /\ Len(event_queue) > Len(issued)
  /\ \E i \in 1..Len(issued) :
       issued[i].how = "queued" /\ ~IsExternal(issued[i].n)

\* The intervals whose begin event lies before the cursor and whose end
\* event lies at or after it.
OpenAtCursor ==
  {n \in {events[i].n : i \in 1..Len(events)} :
     \E b, e \in 1..Len(events) :
       /\ events[b].n = n /\ events[b].type = PET_begin
       /\ events[e].n = n /\ events[e].type = PET_end
       /\ b <= next_event_index /\ next_event_index < e}

TargetedOps == {"initialize", "step", "reverse_initialize"}

\* C25: on a compiled list that playback does not modify, after any
\* sequence of playback calls the cursor lies between 0 and the number of
\* events, the active set is exactly the intervals whose begin event is
\* before the cursor and whose end event is not, and after initialize(t),
\* step(t) or reverse_initialize(t) the cursor is the number of events at
\* or before t and the active set the intervals open at t, whichever state
\* the call started from.
C25_CursorAndActive ==
  /\ next_event_index \in 0..Len(events)
  /\ active = OpenAtCursor
  /\ last_op.name \in TargetedOps =>
       /\ next_event_index = CursorAt(events, double_to_int_time(last_op.t))
       /\ active = OpenAt(events, double_to_int_time(last_op.t))

\* step(t) has left the cursor inside the events list with an interval
\* active.
C25_Witness ==
  /\ last_op.name = "step"
  /\ 0 < next_event_index /\ next_event_index < Len(events)
  /\ active # {}
  /\ active = OpenAtCursor

\* C26: the set-membership assertions of do_event_forward and
\* do_event_reverse hold in step and finalize, also after intervals were
\* appended while others were active and write() then recompiled the
\* list, emptying the active set and keeping the cursor.
C26_AssertionsHold ==
  last_op.name \in {"step", "finalize"} => ~fault

\* Whether the callbacks cbs, issued in this order to intervals of which
\* those in open have been initialized and not finalized since, keep every
\* interval's stream well-formed.
RECURSIVE WellFormedFrom(_, _)
WellFormedFrom(open, cbs) ==
  IF cbs = <<>> THEN TRUE
  ELSE LET c == Head(cbs)
       IN CASE c.event_type \in {ET_initialize, ET_reverse_initialize} ->
                 c.n \notin open /\ WellFormedFrom(open \cup {c.n}, Tail(cbs))
            [] c.event_type \in {ET_finalize, ET_reverse_finalize} ->
                 c.n \in open /\ WellFormedFrom(open \ {c.n}, Tail(cbs))
            [] c.event_type = ET_step ->
                 c.n \in open /\ WellFormedFrom(open, Tail(cbs))
            [] OTHER ->
                 c.n \notin open /\ WellFormedFrom(open, Tail(cbs))

\* C27: the callbacks a playback operation issues continue a well-formed
\* stream for every interval: step, finalize and reverse_finalize go to an
\* interval that has been initialized and not finalized since, initialize,
\* reverse_initialize, instant and reverse_instant to one that has not, also
\* when the operation is called with intervals active.  Up to the first
\* callback that breaks a stream, the intervals initialized and not
\* finalized are those of the active set.
C27_WellFormed ==
  [][last_op'.name \in PlaybackOps => WellFormedFrom(active, issued')]_vars

====
